---- MODULE Spec2Model ----
(***************************************************************************)
(* The Pi 500+ USB HID bridge: pi500-hid-bridge.py (keyboard translator in *)
(* the main thread, mouse manager in a second thread, main() coordinating  *)
(* them) and the standalone hid-keyboard-bridge.py / hid-mouse-bridge.py.  *)
(* Key and button codes keep their evdev names as strings; reports are     *)
(* sequences of byte values.                                               *)
(***************************************************************************)
EXTENDS Integers, Sequences, FiniteSets, TLC

VARIABLES
    prog,            \* which program runs: "pi500" or "hid-keyboard"
    grab,            \* args.grab
    main_pc,         \* position of main() of pi500-hid-bridge.py
    main_exc,        \* exception propagating out of main()'s try statement
    kpc,             \* position of the keyboard translator
    kexc,            \* exception in flight in the keyboard translator
    kgrabbed,        \* the keyboard handle holds the exclusive grab
    kfinal,          \* how the finally block's write_report ended, once it has
    held,            \* key codes physically down on the keyboard device
    e,               \* the event the read loop handed out last
    pressed_keys,
    pressed_usages,
    mod_mask,
    kreport,         \* write_report's argument in the keyboard context
    kretry,          \* write_report's retry_count in the keyboard context
    consumed,        \* the events read so far (kept only by bounded streams)
    hidg0,           \* keyboard endpoint: [open, log of the reports it accepted]
    mpc,             \* position of MouseBridge.run / _process_mouse_events
    running,         \* MouseBridge.running
    plugged,         \* device path of the mouse now present, or None
    mouse_dev,       \* handle picked by the current loop iteration
    current_device,  \* MouseBridge.current_device
    grabber,         \* id of the mouse handle holding the kernel grab, or 0
    mheld,           \* button codes physically down on the mouse
    buttons,
    prev_buttons,
    dx_accum,
    dy_accum,
    wheel_accum,
    frame,           \* events of the current input frame read since the last sync
    mreport,         \* write_report's argument in the mouse context
    mretry,          \* write_report's retry_count in the mouse context
    mconsumed,       \* the events the current call of _process_mouse_events has
                     \* read (kept only by bounded streams)
    hidg1,           \* mouse endpoint: [open, log of the reports it accepted]
    call             \* a call of a report codec function: [fn, args, ret]

None == "None"

(***************************************************************************)
(* Usage tables                                                            *)
(***************************************************************************)
MODIFIER_KEYS ==
    ("KEY_LEFTCTRL" :> 1) @@ ("KEY_LEFTSHIFT" :> 2) @@ ("KEY_LEFTALT" :> 4)
    @@ ("KEY_LEFTMETA" :> 8) @@ ("KEY_RIGHTCTRL" :> 16) @@ ("KEY_RIGHTSHIFT" :> 32)
    @@ ("KEY_RIGHTALT" :> 64) @@ ("KEY_RIGHTMETA" :> 128)

KEY_TO_HID_table ==
    ("KEY_A" :> 4) @@ ("KEY_B" :> 5) @@ ("KEY_C" :> 6)
    @@ ("KEY_D" :> 7) @@ ("KEY_E" :> 8) @@ ("KEY_F" :> 9)
    @@ ("KEY_G" :> 10) @@ ("KEY_H" :> 11) @@ ("KEY_I" :> 12)
    @@ ("KEY_J" :> 13) @@ ("KEY_K" :> 14) @@ ("KEY_L" :> 15)
    @@ ("KEY_M" :> 16) @@ ("KEY_N" :> 17) @@ ("KEY_O" :> 18)
    @@ ("KEY_P" :> 19) @@ ("KEY_Q" :> 20) @@ ("KEY_R" :> 21)
    @@ ("KEY_S" :> 22) @@ ("KEY_T" :> 23) @@ ("KEY_U" :> 24)
    @@ ("KEY_V" :> 25) @@ ("KEY_W" :> 26) @@ ("KEY_X" :> 27)
    @@ ("KEY_Y" :> 28) @@ ("KEY_Z" :> 29) @@ ("KEY_1" :> 30)
    @@ ("KEY_2" :> 31) @@ ("KEY_3" :> 32) @@ ("KEY_4" :> 33)
    @@ ("KEY_5" :> 34) @@ ("KEY_6" :> 35) @@ ("KEY_7" :> 36)
    @@ ("KEY_8" :> 37) @@ ("KEY_9" :> 38) @@ ("KEY_0" :> 39)
    @@ ("KEY_ENTER" :> 40) @@ ("KEY_ESC" :> 41) @@ ("KEY_BACKSPACE" :> 42)
    @@ ("KEY_TAB" :> 43) @@ ("KEY_SPACE" :> 44) @@ ("KEY_MINUS" :> 45)
    @@ ("KEY_EQUAL" :> 46) @@ ("KEY_LEFTBRACE" :> 47) @@ ("KEY_RIGHTBRACE" :> 48)
    @@ ("KEY_BACKSLASH" :> 49) @@ ("KEY_SEMICOLON" :> 51) @@ ("KEY_APOSTROPHE" :> 52)
    @@ ("KEY_GRAVE" :> 53) @@ ("KEY_COMMA" :> 54) @@ ("KEY_DOT" :> 55)
    @@ ("KEY_SLASH" :> 56) @@ ("KEY_CAPSLOCK" :> 57) @@ ("KEY_F1" :> 58)
    @@ ("KEY_F2" :> 59) @@ ("KEY_F3" :> 60) @@ ("KEY_F4" :> 61)
    @@ ("KEY_F5" :> 62) @@ ("KEY_F6" :> 63) @@ ("KEY_F7" :> 64)
    @@ ("KEY_F8" :> 65) @@ ("KEY_F9" :> 66) @@ ("KEY_F10" :> 67)
    @@ ("KEY_F11" :> 68) @@ ("KEY_F12" :> 69) @@ ("KEY_SYSRQ" :> 70)
    @@ ("KEY_SCROLLLOCK" :> 71) @@ ("KEY_PAUSE" :> 72) @@ ("KEY_INSERT" :> 73)
    @@ ("KEY_HOME" :> 74) @@ ("KEY_PAGEUP" :> 75) @@ ("KEY_DELETE" :> 76)
    @@ ("KEY_END" :> 77) @@ ("KEY_PAGEDOWN" :> 78) @@ ("KEY_RIGHT" :> 79)
    @@ ("KEY_LEFT" :> 80) @@ ("KEY_DOWN" :> 81) @@ ("KEY_UP" :> 82)
    @@ ("KEY_NUMLOCK" :> 83) @@ ("KEY_KPSLASH" :> 84) @@ ("KEY_KPASTERISK" :> 85)
    @@ ("KEY_KPMINUS" :> 86) @@ ("KEY_KPPLUS" :> 87) @@ ("KEY_KPENTER" :> 88)
    @@ ("KEY_KP1" :> 89) @@ ("KEY_KP2" :> 90) @@ ("KEY_KP3" :> 91)
    @@ ("KEY_KP4" :> 92) @@ ("KEY_KP5" :> 93) @@ ("KEY_KP6" :> 94)
    @@ ("KEY_KP7" :> 95) @@ ("KEY_KP8" :> 96) @@ ("KEY_KP9" :> 97)
    @@ ("KEY_KP0" :> 98) @@ ("KEY_KPDOT" :> 99) @@ ("KEY_COMPOSE" :> 101)
    @@ ("KEY_MENU" :> 101) @@ ("KEY_HENKAN" :> 138) @@ ("KEY_MUHENKAN" :> 139)
    @@ ("KEY_KATAKANAHIRAGANA" :> 136) @@ ("KEY_YEN" :> 137) @@ ("KEY_RO" :> 135)
    @@ ("KEY_ZENKAKUHANKAKU" :> 148)

\* hid-keyboard-bridge.py has the same table without KEY_ZENKAKUHANKAKU, and
\* main() adds the JIS alias KEY_ZENKAKUHANKAKU -> 0x35 because it is absent.
KEY_TO_HID(p) ==
    IF p = "pi500" THEN KEY_TO_HID_table
    ELSE ("KEY_ZENKAKUHANKAKU" :> 53) @@ KEY_TO_HID_table

BUTTON_MAP == ("BTN_LEFT" :> 1) @@ ("BTN_RIGHT" :> 2) @@ ("BTN_MIDDLE" :> 4)

\* A lookup that treats a code missing from the table as usage 0.
hid_usage_or_zero(p, code) ==
    IF code \in DOMAIN KEY_TO_HID(p)
    THEN [is_none |-> FALSE, usage |-> KEY_TO_HID(p)[code]]
    ELSE [is_none |-> FALSE, usage |-> 0]

\* hid_usage = KEY_TO_HID.get(e.code): None, or the usage
hid_usage_of(p, code) ==
    IF code \in DOMAIN KEY_TO_HID(p)
    THEN [is_none |-> FALSE, usage |-> KEY_TO_HID(p)[code]]
    ELSE [is_none |-> TRUE, usage |-> 0]

(***************************************************************************)
(* Bit operations on bytes                                                 *)
(***************************************************************************)
HasBit(m, bit) == (m \div bit) % 2 = 1

\* m | bit, for a single-bit value
BitOr(m, bit) == IF HasBit(m, bit) THEN m ELSE m + bit

\* m & ~bit, for a single-bit value
BitClear(m, bit) == IF HasBit(m, bit) THEN m - bit ELSE m

\* x & 0xFF on Python's unbounded two's-complement integers
And255(x) == x % 256

(***************************************************************************)
(* Report codec                                                            *)
(***************************************************************************)
Min(S) == CHOOSE x \in S : \A y \in S : x <= y
Max(S) == CHOOSE x \in S : \A y \in S : y <= x

Range(s) == {s[i] : i \in 1..Len(s)}

RECURSIVE RemoveFirst(_, _)
RemoveFirst(s, x) ==
    IF s = <<>> THEN <<>>
    ELSE IF Head(s) = x THEN Tail(s)
    ELSE <<Head(s)>> \o RemoveFirst(Tail(s), x)

\* sorted(iterable): the items in ascending order
RECURSIVE sorted(_)
sorted(s) ==
    IF s = <<>> THEN <<>>
    ELSE LET m == Min(Range(s)) IN <<m>> \o sorted(RemoveFirst(s, m))

\* The order in which iterating a Python set yields its elements is not
\* specified; the translators use this one (descending).  The codec
\* specification SpecKbdCodec calls the report builder with every order.
RECURSIVE set_iter(_)
set_iter(S) ==
    IF S = {} THEN <<>> ELSE LET m == Max(S) IN <<m>> \o set_iter(S \ {m})

\* keys[:n]
Take(s, n) == SubSeq(s, 1, IF Len(s) < n THEN Len(s) ELSE n)

\* while len(keys) < n: keys.append(0)
PadZero(s, n) == s \o [i \in 1..(n - Len(s)) |-> 0]

\* The report builder without sorted(): slots in iteration order.
build_report_unsorted(mask, it) ==
    <<And255(mask), 0>> \o PadZero(Take(it, 6), 6)

\* The report builder without the [:6] slice.
build_report_untruncated(mask, it) ==
    <<And255(mask), 0>> \o PadZero(sorted(it), 6)

\* build_keyboard_report / build_report on the set's elements as iterated
build_report_iter(mask, it) ==
    <<And255(mask), 0>> \o PadZero(Take(sorted(it), 6), 6)

build_keyboard_report(mask, usages) == build_report_iter(mask, set_iter(usages))

\* A clamp to the whole signed byte range, -128 included.
clamp_int8(value) == Max({-128, Min({127, value})})

\* clamp with its default bounds min_val = -127, max_val = 127
clamp(value) == Max({-127, Min({127, value})})

signed_byte(value) ==
    IF value < 0 THEN And255(256 + value) ELSE And255(value)

build_mouse_report(b, dx, dy, wheel) ==
    <<And255(b), signed_byte(clamp(dx)), signed_byte(clamp(dy)),
      signed_byte(clamp(wheel))>>

AllReleased == build_keyboard_report(0, {})
Neutral == build_mouse_report(0, 0, 0, 0)

(***************************************************************************)
(* Endpoint writer                                                         *)
(***************************************************************************)
max_retries == 100

\* write_report with a cap on the "not ready" retries too.
write_report_pass_capped(p, retry_count, outcome) ==
    CASE outcome \in {"ok", "short"} ->
           [does |-> "return", retry_count |-> retry_count, sleep |-> 0]
      [] outcome \in {"EAGAIN", "EPIPE"} ->
           IF retry_count + 1 >= 100
           THEN [does |-> "raise", retry_count |-> retry_count + 1, sleep |-> 0]
           ELSE [does |-> "retry", retry_count |-> retry_count + 1,
                 sleep |-> IF outcome = "EAGAIN" THEN 10 ELSE 100]
      [] OTHER ->
           [does |-> "raise", retry_count |-> retry_count, sleep |-> 0]

\* write_report with a retry counter that starts again after a "not ready".
write_report_pass_reset(p, retry_count, outcome) ==
    CASE outcome \in {"ok", "short"} ->
           [does |-> "return", retry_count |-> retry_count, sleep |-> 0]
      [] outcome = "EAGAIN" ->
           [does |-> "retry", retry_count |-> 0, sleep |-> 10]
      [] outcome = "EPIPE" /\ p = "pi500" ->
           IF retry_count + 1 >= max_retries
           THEN [does |-> "raise", retry_count |-> retry_count + 1, sleep |-> 0]
           ELSE [does |-> "retry", retry_count |-> retry_count + 1, sleep |-> 100]
      [] OTHER ->
           [does |-> "raise", retry_count |-> retry_count, sleep |-> 0]

\* One pass of write_report's loop, given what os.write did:
\*   "ok"     the endpoint accepted the report
\*   "short"  os.write returned a count below len(report): no exception, and
\*            the return value is not looked at
\*   "EAGAIN" BlockingIOError, errno EAGAIN
\*   "EPIPE"  BrokenPipeError, errno EPIPE
\*   "EIO"    any other OSError
\* The result says how the pass ends ("return", "retry" after a sleep of
\* `sleep` ms, or "raise") and gives retry_count after it.  The standalone
\* programs' write_report handles only EAGAIN.
write_report_pass(p, retry_count, outcome) ==
    CASE outcome \in {"ok", "short"} ->
           [does |-> "return", retry_count |-> retry_count, sleep |-> 0]
      [] outcome = "EAGAIN" ->
           [does |-> "retry", retry_count |-> retry_count, sleep |-> 10]
      [] outcome = "EPIPE" /\ p = "pi500" ->
           IF retry_count + 1 >= max_retries
           THEN [does |-> "raise", retry_count |-> retry_count + 1, sleep |-> 0]
           ELSE [does |-> "retry", retry_count |-> retry_count + 1, sleep |-> 100]
      [] OTHER ->
           [does |-> "raise", retry_count |-> retry_count, sleep |-> 0]

\* The endpoint stays disconnected: the passes of write_report until it raises.
RECURSIVE write_report_disconnected(_, _)
write_report_disconnected(p, retry_count) ==
    LET r == write_report_pass(p, retry_count, "EPIPE")
    IN  IF r.does = "raise" THEN r
        ELSE write_report_disconnected(p, r.retry_count)

\* What os.write can answer on an open endpoint.
Outcomes == {"ok", "EAGAIN", "EPIPE", "EIO"}

\* Single "disconnected" answers are explored up to this retry_count; a
\* longer outage is the endpoint staying disconnected until write_report
\* gives up (write_report_disconnected).
MaxDisconnects == 2

\* The endpoint's log of accepted reports, keeping the last `depth` of them.
Accept(ep, report, depth) ==
    LET s == Append(ep.log, report)
    IN  [ep EXCEPT !.log = IF Len(s) > depth
                            THEN SubSeq(s, Len(s) - depth + 1, Len(s))
                            ELSE s]

\* A stream bounded to n events keeps every report; an unbounded one (n = 0)
\* keeps the last report only.
LogDepth(n) == IF n = 0 THEN 1 ELSE n + 2

(***************************************************************************)
(* Keyboard translator: run_keyboard_bridge (pi500-hid-bridge.py) and      *)
(* main (hid-keyboard-bridge.py)                                           *)
(***************************************************************************)
NoEvent == [type |-> "none", code |-> None, value |-> 0]
KeyEvent(code, value) == [type |-> "EV_KEY", code |-> code, value |-> value]
SynEvent == [type |-> "EV_SYN", code |-> "SYN_REPORT", value |-> 0]

\* The events a keyboard with the keys `held` down can deliver next, over the
\* key codes K: a press of a key that is up, a release or an auto-repeat of a
\* key that is down, or a sync marker.
DeviceEvents(K, down) ==
    {KeyEvent(k, 1) : k \in K \ down}
    \cup {KeyEvent(k, v) : k \in K \cap down, v \in {0, 2}}
    \cup {SynEvent}

HeldAfter(down, ev) ==
    IF ev.type # "EV_KEY" THEN down
    ELSE IF ev.value = 1 THEN down \cup {ev.code}
    ELSE IF ev.value = 0 THEN down \ {ev.code}
    ELSE down

\* A loop that handles auto-repeat like any other value.
is_repeat_never(ev) == FALSE

\* is_repeat = e.value == 2
is_repeat(ev) == ev.value = 2

\* A modifier whose release leaves its bit set.
mod_mask_sticky(mask, ev) ==
    IF ev.value = 1 THEN BitOr(mask, MODIFIER_KEYS[ev.code]) ELSE mask

\* A modifier whose release clears the whole mask.
mod_mask_release_all(mask, ev) ==
    IF ev.value = 1 THEN BitOr(mask, MODIFIER_KEYS[ev.code])
    ELSE IF ev.value = 0 THEN 0
    ELSE mask

\* The modifier branch: mod_mask |= bit on a press, mod_mask &= (~bit & 0xFF)
\* on a release.
mod_mask_after(mask, ev) ==
    LET bit == MODIFIER_KEYS[ev.code]
    IN  IF ev.value = 1 THEN BitOr(mask, bit)
        ELSE IF ev.value = 0 THEN BitClear(mask, bit)
        ELSE mask

\* The body of the read loop: the translation state after the event.
handle_key_event(p, keys, usages, mask, ev) ==
    LET same == [pressed_keys |-> keys, pressed_usages |-> usages,
                 mod_mask |-> mask]
        hid_usage == hid_usage_of(p, ev.code)
    IN  IF ev.type # "EV_KEY" THEN same
        ELSE IF is_repeat(ev) THEN same
        ELSE IF ev.code \in DOMAIN MODIFIER_KEYS
             THEN [same EXCEPT !.mod_mask = mod_mask_after(mask, ev)]
        ELSE IF hid_usage.is_none THEN same
        ELSE [pressed_keys |->
                  IF ev.value = 1 THEN keys \cup {ev.code}
                  ELSE IF ev.value = 0 THEN keys \ {ev.code}
                  ELSE keys,
              pressed_usages |->
                  IF ev.value = 1 THEN usages \cup {hid_usage.usage}
                  ELSE IF ev.value = 0 THEN usages \ {hid_usage.usage}
                  ELSE usages,
              mod_mask |-> mask]

\* A loop that reports presses only.
reaches_write_on_press(p, ev) ==
    /\ ev.type = "EV_KEY"
    /\ ev.value = 1
    /\ ev.code \in DOMAIN MODIFIER_KEYS \/ ~hid_usage_of(p, ev.code).is_none

\* Whether the loop body reaches a call of write_report for the event: not
\* for another event type, a repeat or an unmapped key (the three `continue`s).
reaches_write(p, ev) ==
    /\ ev.type = "EV_KEY"
    /\ ~is_repeat(ev)
    /\ ev.code \in DOMAIN MODIFIER_KEYS \/ ~hid_usage_of(p, ev.code).is_none

\* A finally block that writes the current state again.
final_report_stale == build_keyboard_report(mod_mask, pressed_usages)

\* The report the finally block writes.
final_report == build_keyboard_report(0, {})

mainvars == <<main_pc, main_exc>>
mousevars == <<mpc, plugged, mouse_dev, current_device, grabber, mheld, buttons,
               prev_buttons, dx_accum, dy_accum, wheel_accum, frame, mreport,
               mretry, mconsumed, hidg1>>
kstate == <<pressed_keys, pressed_usages, mod_mask>>

\* What no step of the keyboard translator changes.
KbdFrame == UNCHANGED <<prog, grab, mainvars, running, mousevars, call>>

\* dev = InputDevice(args.event) or pick_keyboard_device(); either can raise.
KbdOpenDev ==
    /\ kpc = "open_dev"
    /\ \E ok \in BOOLEAN :
         IF ok THEN kpc' = "grab" /\ kexc' = kexc
         ELSE kpc' = "returned" /\ kexc' = "OSError"
    /\ UNCHANGED <<kgrabbed, kfinal, held, e, kstate, kreport, kretry, consumed, hidg0>>
    /\ KbdFrame

\* if args.grab: dev.grab(), which raises when another client holds the grab.
\* hid-keyboard-bridge.py opens the endpoint after it.
KbdGrab ==
    /\ kpc = "grab"
    /\ \E ok \in BOOLEAN :
         /\ ~grab => ok
         /\ IF ok
            THEN /\ kgrabbed' = grab
                 /\ kexc' = kexc
                 /\ IF prog = "pi500"
                    THEN /\ kpc' = "init_write"
                         /\ kreport' = build_keyboard_report(0, {})
                         /\ hidg0' = hidg0
                    ELSE /\ kpc' = "open_hidg"
                         /\ UNCHANGED <<kreport, hidg0>>
            ELSE /\ kpc' = "returned" /\ kexc' = "OSError"
                 /\ UNCHANGED <<kgrabbed, kreport, hidg0>>
    /\ UNCHANGED <<kfinal, held, e, kstate, kretry, consumed>>
    /\ KbdFrame

\* hidfd = open_hidg(args.hidg) of hid-keyboard-bridge.py
KbdOpenHidg ==
    /\ kpc = "open_hidg"
    /\ \E ok \in BOOLEAN :
         IF ok
         THEN /\ hidg0' = [hidg0 EXCEPT !.open = TRUE]
              /\ kpc' = "init_write"
              /\ kreport' = build_keyboard_report(0, {})
              /\ kexc' = kexc
         ELSE /\ kpc' = "returned" /\ kexc' = "OSError"
              /\ UNCHANGED <<hidg0, kreport>>
    /\ UNCHANGED <<kgrabbed, kfinal, held, e, kstate, kretry, consumed>>
    /\ KbdFrame

\* Entering the finally block with `exc` in flight: its first statement is
\* write_report(hidfd, build_keyboard_report(0, set())).
EnterFinally(exc) ==
    /\ kpc' = "finally_write"
    /\ kexc' = exc
    /\ kreport' = final_report
    /\ kretry' = 0

\* for e in dev.read_loop(): one event over the key codes K, and the loop
\* body up to the call of write_report.  n bounds the stream (0: unbounded).
KbdRead(K, n) ==
    /\ kpc = "read"
    /\ n = 0 \/ Len(consumed) < n
    /\ \E ev \in DeviceEvents(K, held) :
         LET r == handle_key_event(prog, pressed_keys, pressed_usages, mod_mask, ev)
         IN  /\ e' = ev
             /\ held' = HeldAfter(held, ev)
             /\ consumed' = IF n = 0 THEN consumed ELSE Append(consumed, ev)
             /\ pressed_keys' = r.pressed_keys
             /\ pressed_usages' = r.pressed_usages
             /\ mod_mask' = r.mod_mask
             /\ IF reaches_write(prog, ev)
                THEN /\ kpc' = "write"
                     /\ kreport' = build_keyboard_report(r.mod_mask, r.pressed_usages)
                     /\ kretry' = 0
                ELSE UNCHANGED <<kpc, kreport, kretry>>
    /\ UNCHANGED <<kexc, kgrabbed, kfinal, hidg0>>
    /\ KbdFrame

\* read_loop raises OSError: the keyboard device went away.
KbdDeviceError ==
    /\ kpc = "read"
    /\ EnterFinally("OSError")
    /\ UNCHANGED <<kgrabbed, kfinal, held, e, kstate, consumed, hidg0>>
    /\ KbdFrame

\* The for loop runs out of events.
KbdStreamEnd ==
    /\ kpc = "read"
    /\ EnterFinally(kexc)
    /\ UNCHANGED <<kgrabbed, kfinal, held, e, kstate, consumed, hidg0>>
    /\ KbdFrame

WritePcs == {"init_write", "write", "finally_write"}

\* write_report ends (res.does is "return" or "raise") at the current position.
KbdWriteEnds(res, n) ==
    /\ hidg0' = IF res.does = "return"
                THEN Accept(hidg0, kreport, LogDepth(n)) ELSE hidg0
    /\ CASE kpc = "init_write" ->
              \* outside the try statement: a failure propagates to the caller
              /\ kreport' = <<>> /\ kretry' = 0 /\ kfinal' = kfinal
              /\ IF res.does = "return"
                 THEN kpc' = "read" /\ kexc' = kexc
                 ELSE kpc' = "returned" /\ kexc' = "OSError"
         [] kpc = "write" ->
              /\ kfinal' = kfinal
              /\ IF res.does = "return"
                 THEN kpc' = "read" /\ kexc' = kexc /\ kreport' = <<>> /\ kretry' = 0
                 ELSE EnterFinally("OSError")
         [] kpc = "finally_write" ->
              \* except Exception: pass
              /\ kreport' = <<>> /\ kretry' = 0
              /\ kexc' = kexc
              /\ kfinal' = IF res.does = "return" THEN "written" ELSE "swallowed"
              /\ kpc' = IF prog = "pi500" THEN "ungrab" ELSE "close"

\* One pass of write_report's loop in the keyboard context.
KbdWriteAttempt(n) ==
    /\ kpc \in WritePcs
    /\ \E o \in Outcomes :
         LET res == write_report_pass(prog, kretry, o)
         IN  /\ (o = "EPIPE" /\ res.does = "retry") => kretry < MaxDisconnects
             /\ IF res.does = "retry"
                THEN /\ kretry' = res.retry_count
                     /\ UNCHANGED <<kpc, kexc, kfinal, kreport, hidg0>>
                ELSE KbdWriteEnds(res, n)
    /\ UNCHANGED <<kgrabbed, held, e, kstate, consumed>>
    /\ KbdFrame

\* The endpoint stays disconnected until write_report gives up.
KbdWriteDisconnected(n) ==
    /\ kpc \in WritePcs
    /\ prog = "pi500"
    /\ KbdWriteEnds(write_report_disconnected(prog, kretry), n)
    /\ UNCHANGED <<kgrabbed, held, e, kstate, consumed>>
    /\ KbdFrame

\* KeyboardInterrupt is raised in the main thread while it waits for an event
\* or sleeps in write_report.  Inside the try statement it is caught (except
\* KeyboardInterrupt: pass) and the finally block runs; before the try
\* statement, and inside the finally block (where only Exception is caught),
\* it propagates to the caller.
KbdInterrupt ==
    /\ kpc \in WritePcs \cup {"read"}
    /\ IF kpc \in {"read", "write"}
       THEN EnterFinally("none") /\ kfinal' = kfinal
       ELSE /\ kpc' = "returned" /\ kexc' = "KeyboardInterrupt"
            /\ kreport' = <<>> /\ kretry' = 0
            /\ kfinal' = IF kpc = "finally_write" THEN "interrupted" ELSE kfinal
    /\ UNCHANGED <<kgrabbed, held, e, kstate, consumed, hidg0>>
    /\ KbdFrame

\* os.close(hidfd) in the finally block of hid-keyboard-bridge.py
KbdClose ==
    /\ kpc = "close"
    /\ hidg0' = [hidg0 EXCEPT !.open = FALSE]
    /\ kpc' = "ungrab"
    /\ UNCHANGED <<kexc, kgrabbed, kfinal, held, e, kstate, kreport, kretry, consumed>>
    /\ KbdFrame

\* if args.grab: dev.ungrab(), errors swallowed; then the function returns
\* and an exception in flight propagates.
KbdUngrab ==
    /\ kpc = "ungrab"
    /\ kgrabbed' = FALSE
    /\ kpc' = "returned"
    /\ UNCHANGED <<kexc, kfinal, held, e, kstate, kreport, kretry, consumed, hidg0>>
    /\ KbdFrame

(***************************************************************************)
(* Mouse manager: MouseBridge (pi500-hid-bridge.py), running in its own    *)
(* daemon thread until the process exits                                   *)
(***************************************************************************)
kbdvars == <<kpc, kexc, kgrabbed, kfinal, held, e, kstate, kreport, kretry, consumed,
             hidg0>>
mlocals == <<buttons, prev_buttons, dx_accum, dy_accum, wheel_accum, frame>>

\* What no step of the mouse thread changes.
MouseFrame == UNCHANGED <<prog, grab, mainvars, running, kbdvars, call>>

MouseAlive == prog = "pi500" /\ main_pc # "exit"

\* An open device handle: the path it was opened on, an id telling handles
\* apart, and whether its device is still there.
Handle(path, id) == [path |-> path, id |-> id, alive |-> TRUE]

\* No handle (Python's None where a handle is expected).
NoDevice == [path |-> None, id |-> 0, alive |-> FALSE]

IdOf(h) == h.id

\* The id of a new handle: not that of a handle still referenced.
FreshId(cur) == Min({i \in 1..2 : i # IdOf(cur)})

\* The kernel drops the grab of a handle that is closed; a handle is closed
\* when nothing references it any more.
GrabAfter(g, kept) == IF g # 0 /\ g = IdOf(kept) THEN g ELSE 0

\* while self.running: false, so the loop ends and the cleanup starts.
MouseLoopExit ==
    /\ MouseAlive
    /\ mpc = "loop"
    /\ ~running
    /\ IF current_device # NoDevice
       THEN mpc' = "cleanup_write" /\ mreport' = build_mouse_report(0, 0, 0, 0)
       ELSE mpc' = "exited" /\ mreport' = mreport
    /\ UNCHANGED <<plugged, mouse_dev, current_device, grabber, mheld, mlocals,
                   mretry, hidg1>>
    /\ UNCHANGED mconsumed
    /\ MouseFrame

\* pick_mouse_device() finds no mouse (or raises): forget the current device
\* and sleep 1 s.
MousePickNone ==
    /\ MouseAlive
    /\ mpc = "loop"
    /\ running
    /\ mouse_dev' = NoDevice
    /\ current_device' = NoDevice
    /\ grabber' = GrabAfter(grabber, NoDevice)
    /\ mpc' = "sleep1"
    /\ UNCHANGED <<plugged, mheld, mlocals, mreport, mretry, hidg1>>
    /\ UNCHANGED mconsumed
    /\ MouseFrame

\* pick_mouse_device() returns a new handle of the mouse present.  A device
\* that is new (no current device, or another path) becomes the current
\* device and is grabbed if args.grab; the grab fails when another handle
\* holds it.  Then _process_mouse_events starts: locals zeroed, the neutral
\* report written first.
MousePickFound ==
    /\ MouseAlive
    /\ mpc = "loop"
    /\ running
    /\ plugged # None
    /\ LET h == Handle(plugged, FreshId(current_device))
           new == current_device = NoDevice \/ current_device.path # h.path
           cur == IF new THEN h ELSE current_device
           g == GrabAfter(grabber, IF new THEN NoDevice ELSE current_device)
       IN  /\ mouse_dev' = h
           /\ current_device' = cur
           /\ \E ok \in BOOLEAN :
                grabber' = IF new /\ grab /\ ok /\ g = 0 THEN h.id ELSE g
    /\ mpc' = "init_write"
    /\ mreport' = build_mouse_report(0, 0, 0, 0)
    /\ mretry' = 0
    /\ buttons' = 0 /\ prev_buttons' = 0
    /\ dx_accum' = 0 /\ dy_accum' = 0 /\ wheel_accum' = 0
    /\ frame' = 0
    /\ UNCHANGED <<plugged, mheld, hidg1>>
    /\ mconsumed' = <<>>
    /\ MouseFrame

\* time.sleep(1.0) after no mouse was found, time.sleep(0.5) after an error
MouseSleep ==
    /\ MouseAlive
    /\ mpc \in {"sleep1", "sleep05"}
    /\ mpc' = "loop"
    /\ UNCHANGED <<plugged, mouse_dev, current_device, grabber, mheld, mlocals,
                   mreport, mretry, hidg1>>
    /\ UNCHANGED mconsumed
    /\ MouseFrame

\* An OSError that ends run instead of being handled.
MouseOSErrorEndsRun ==
    /\ mpc' = "exited"
    /\ current_device' = NoDevice
    /\ grabber' = grabber
    /\ mreport' = <<>> /\ mretry' = 0

\* except OSError in run: ungrab the current device if args.grab, forget it,
\* sleep 0.5 s.
MouseOSError ==
    /\ mpc' = "sleep05"
    /\ current_device' = NoDevice
    /\ grabber' = IF current_device # NoDevice /\ grab /\ grabber = current_device.id
                  THEN 0 ELSE grabber
    /\ mreport' = <<>> /\ mretry' = 0

\* except Exception in run: log and sleep 0.5 s.
MouseUnexpected ==
    /\ MouseAlive
    /\ mpc = "read"
    /\ mpc' = "sleep05"
    /\ UNCHANGED <<plugged, mouse_dev, current_device, grabber, mheld, mlocals,
                   mreport, mretry, hidg1>>
    /\ UNCHANGED mconsumed
    /\ MouseFrame

RelEvent(code, value) == [type |-> "EV_REL", code |-> code, value |-> value]

\* The events a mouse with the buttons `down` can deliver next: one of the
\* relative motions Rels (pairs <<code, value>>), a press of a button of Btns
\* that is up, a release of one that is down, or a sync marker.
MouseEvents(Rels, Btns, down) ==
    {RelEvent(r[1], r[2]) : r \in Rels}
    \cup {KeyEvent(b, 1) : b \in Btns \ down}
    \cup {KeyEvent(b, 0) : b \in Btns \cap down}
    \cup {SynEvent}

\* Non-sync events explored per input frame.
MaxFrame == 2

\* The loop body with a report at every sync marker, changed or not.
handle_mouse_event_every_sync(b, prev, dx, dy, wheel, ev) ==
    LET same == [buttons |-> b, dx_accum |-> dx, dy_accum |-> dy,
                 wheel_accum |-> wheel, write |-> FALSE]
    IN  IF ev.type = "EV_REL" THEN
            IF ev.code = "REL_X" THEN [same EXCEPT !.dx_accum = dx + ev.value]
            ELSE IF ev.code = "REL_Y" THEN [same EXCEPT !.dy_accum = dy + ev.value]
            ELSE same
        ELSE IF ev.type = "EV_KEY" /\ ev.code \in DOMAIN BUTTON_MAP THEN
            [same EXCEPT !.buttons = IF ev.value = 1
                                     THEN BitOr(b, BUTTON_MAP[ev.code])
                                     ELSE BitClear(b, BUTTON_MAP[ev.code])]
        ELSE [same EXCEPT !.write = ev.type = "EV_SYN"]

\* The body of the loop of _process_mouse_events for one event, up to the
\* call of write_report.
handle_mouse_event(b, prev, dx, dy, wheel, ev) ==
    LET same == [buttons |-> b, dx_accum |-> dx, dy_accum |-> dy,
                 wheel_accum |-> wheel, write |-> FALSE]
    IN  IF ev.type = "EV_REL" THEN
            IF ev.code = "REL_X" THEN [same EXCEPT !.dx_accum = dx + ev.value]
            ELSE IF ev.code = "REL_Y" THEN [same EXCEPT !.dy_accum = dy + ev.value]
            ELSE IF ev.code = "REL_WHEEL"
                 THEN [same EXCEPT !.wheel_accum = wheel + ev.value]
            ELSE same
        ELSE IF ev.type = "EV_KEY" THEN
            IF ev.code \in DOMAIN BUTTON_MAP THEN
                LET bit == BUTTON_MAP[ev.code]
                IN  [same EXCEPT !.buttons = IF ev.value = 1 THEN BitOr(b, bit)
                                             ELSE IF ev.value = 0 THEN BitClear(b, bit)
                                             ELSE b]
            ELSE same
        ELSE IF ev.type = "EV_SYN" /\ ev.code = "SYN_REPORT" THEN
            [same EXCEPT !.write = dx # 0 \/ dy # 0 \/ wheel # 0 \/ b # prev]
        ELSE same

\* for e in dev.read_loop(): one event from the handle being drained.  The
\* kernel delivers events to a handle only while no other handle holds the
\* grab.  A stop request is seen here, when an event arrives.
MouseRead(Rels, Btns, n) ==
    /\ MouseAlive
    /\ mpc = "read"
    /\ mouse_dev.alive
    /\ grabber \in {0, mouse_dev.id}
    /\ n = 0 \/ Len(mconsumed) < n
    /\ \E ev \in MouseEvents(Rels, Btns, mheld) :
         /\ ev.type # "EV_SYN" => frame < MaxFrame
         /\ mheld' = HeldAfter(mheld, ev)
         /\ mconsumed' = IF n = 0 THEN mconsumed ELSE Append(mconsumed, ev)
         /\ IF ~running
            THEN /\ mpc' = "loop"
                 /\ UNCHANGED <<mlocals, mreport, mretry>>
            ELSE LET r == handle_mouse_event(buttons, prev_buttons, dx_accum,
                                             dy_accum, wheel_accum, ev)
                 IN  /\ buttons' = r.buttons
                     /\ dx_accum' = r.dx_accum
                     /\ dy_accum' = r.dy_accum
                     /\ wheel_accum' = r.wheel_accum
                     /\ prev_buttons' = prev_buttons
                     /\ frame' = IF ev.type = "EV_SYN" THEN 0 ELSE frame + 1
                     /\ IF r.write
                        THEN /\ mpc' = "write"
                             /\ mreport' = build_mouse_report(r.buttons, r.dx_accum,
                                                              r.dy_accum, r.wheel_accum)
                             /\ mretry' = 0
                        ELSE UNCHANGED <<mpc, mreport, mretry>>
    /\ UNCHANGED <<plugged, mouse_dev, current_device, grabber, hidg1>>
    /\ MouseFrame

\* read_loop raises OSError: the device of the handle is gone.
MouseDeviceGone ==
    /\ MouseAlive
    /\ mpc = "read"
    /\ ~mouse_dev.alive
    /\ MouseOSError
    /\ UNCHANGED <<plugged, mouse_dev, mheld, mlocals, hidg1>>
    /\ UNCHANGED mconsumed
    /\ MouseFrame

MouseWritePcs == {"init_write", "write", "cleanup_write"}

\* write_report ends (res.does is "return" or "raise") at the current position.
MouseWriteEnds(res, depth) ==
    /\ hidg1' = IF res.does = "return" THEN Accept(hidg1, mreport, depth) ELSE hidg1
    /\ CASE mpc = "init_write" ->
              IF res.does = "return"
              THEN /\ mpc' = "read" /\ mreport' = <<>> /\ mretry' = 0
                   /\ UNCHANGED <<current_device, grabber, mlocals>>
              ELSE MouseOSError /\ UNCHANGED mlocals
         [] mpc = "write" ->
              IF res.does = "return"
              THEN /\ mpc' = "read" /\ mreport' = <<>> /\ mretry' = 0
                   /\ dx_accum' = 0 /\ dy_accum' = 0 /\ wheel_accum' = 0
                   /\ prev_buttons' = buttons
                   /\ UNCHANGED <<current_device, grabber, buttons, frame>>
              ELSE MouseOSError /\ UNCHANGED mlocals
         [] mpc = "cleanup_write" ->
              \* except Exception: pass
              /\ mpc' = "cleanup_ungrab" /\ mreport' = <<>> /\ mretry' = 0
              /\ UNCHANGED <<current_device, grabber, mlocals>>

\* What os.write answers in the mouse thread: EBADF once main() has closed
\* the descriptor.
MouseOutcomes == IF hidg1.open THEN Outcomes ELSE {"EBADF"}

\* One pass of write_report's loop in the mouse thread.
MouseWriteAttempt(depth) ==
    /\ MouseAlive
    /\ mpc \in MouseWritePcs
    /\ \E o \in MouseOutcomes :
         LET res == write_report_pass(prog, mretry, o)
         IN  /\ (o = "EPIPE" /\ res.does = "retry") => mretry < MaxDisconnects
             /\ IF res.does = "retry"
                THEN /\ mretry' = res.retry_count
                     /\ UNCHANGED <<mpc, mreport, current_device, grabber, mlocals,
                                    hidg1>>
                ELSE MouseWriteEnds(res, depth)
    /\ UNCHANGED <<plugged, mouse_dev, mheld>>
    /\ UNCHANGED mconsumed
    /\ MouseFrame

\* The endpoint stays disconnected until write_report gives up.
MouseWriteDisconnected(depth) ==
    /\ MouseAlive
    /\ mpc \in MouseWritePcs
    /\ hidg1.open
    /\ MouseWriteEnds(write_report_disconnected(prog, mretry), depth)
    /\ UNCHANGED <<plugged, mouse_dev, mheld>>
    /\ UNCHANGED mconsumed
    /\ MouseFrame

\* An end of run that leaves the grab to the exit of the process.
MouseCleanupNoUngrab ==
    /\ MouseAlive
    /\ mpc = "cleanup_ungrab"
    /\ mpc' = "exited"
    /\ UNCHANGED <<plugged, mouse_dev, current_device, grabber, mheld, mlocals,
                   mreport, mretry, hidg1>>
    /\ UNCHANGED mconsumed
    /\ MouseFrame

\* The end of run: if args.grab: self.current_device.ungrab(), errors swallowed.
MouseCleanupUngrab ==
    /\ MouseAlive
    /\ mpc = "cleanup_ungrab"
    /\ grabber' = IF grab /\ grabber = IdOf(current_device) THEN 0 ELSE grabber
    /\ mpc' = "exited"
    /\ UNCHANGED <<plugged, mouse_dev, current_device, mheld, mlocals, mreport,
                   mretry, hidg1>>
    /\ UNCHANGED mconsumed
    /\ MouseFrame

\* A mouse is plugged in and appears at `path`.
MousePlug(path) ==
    /\ MouseAlive
    /\ plugged = None
    /\ plugged' = path
    /\ UNCHANGED <<mpc, mouse_dev, current_device, grabber, mheld, mlocals,
                   mreport, mretry, hidg1>>
    /\ UNCHANGED mconsumed
    /\ MouseFrame

Gone(h) == [h EXCEPT !.alive = FALSE]

\* The mouse is unplugged: its handles go dead and its grab with it.
MouseUnplug ==
    /\ MouseAlive
    /\ plugged # None
    /\ plugged' = None
    /\ mouse_dev' = Gone(mouse_dev)
    /\ current_device' = Gone(current_device)
    /\ grabber' = 0
    /\ mheld' = {}
    /\ UNCHANGED <<mpc, mlocals, mreport, mretry, hidg1>>
    /\ UNCHANGED mconsumed
    /\ MouseFrame

(***************************************************************************)
(* Coordinator: main() of pi500-hid-bridge.py from the call of             *)
(* run_keyboard_bridge on                                                  *)
(***************************************************************************)
MainFrame == UNCHANGED <<prog, grab, call>>

\* A coordinator whose except clause swallows every exception.
MainStopSwallowsAll ==
    /\ prog = "pi500"
    /\ main_pc = "run_keyboard"
    /\ kpc = "returned"
    /\ main_exc' = "none"
    /\ running' = FALSE
    /\ main_pc' = "join"
    /\ UNCHANGED <<kbdvars, mousevars>>
    /\ MainFrame

\* run_keyboard_bridge has returned or raised.  except KeyboardInterrupt
\* swallows an interrupt; the finally block starts with mouse_bridge.stop().
MainStop ==
    /\ prog = "pi500"
    /\ main_pc = "run_keyboard"
    /\ kpc = "returned"
    /\ main_exc' = IF kexc = "KeyboardInterrupt" THEN "none" ELSE kexc
    /\ running' = FALSE
    /\ main_pc' = "join"
    /\ UNCHANGED <<kbdvars, mousevars>>
    /\ MainFrame

\* mouse_thread.join(timeout=2.0): the thread has finished.
MainJoined ==
    /\ main_pc = "join"
    /\ mpc = "exited"
    /\ main_pc' = "close_keyboard"
    /\ UNCHANGED <<main_exc, running, kbdvars, mousevars>>
    /\ MainFrame

\* A join without a timeout: it returns only when the thread has finished.
MainJoinForever ==
    /\ main_pc = "join"
    /\ mpc = "exited"
    /\ main_pc' = "close_keyboard"
    /\ UNCHANGED <<main_exc, running, kbdvars, mousevars>>
    /\ MainFrame

\* mouse_thread.join(timeout=2.0): 2 s pass while the thread waits for a
\* mouse event or retries a write.
MainJoinTimeout ==
    /\ main_pc = "join"
    /\ mpc \in MouseWritePcs \cup {"read"}
    /\ main_pc' = "close_keyboard"
    /\ UNCHANGED <<main_exc, running, kbdvars, mousevars>>
    /\ MainFrame

\* KeyboardInterrupt while main() waits in join: it propagates out of the
\* finally block, past both os.close calls.
MainJoinInterrupt ==
    /\ main_pc = "join"
    /\ main_exc' = "KeyboardInterrupt"
    /\ main_pc' = "exit"
    /\ UNCHANGED <<running, kbdvars, mousevars>>
    /\ MainFrame

\* os.close(keyboard_fd)
MainCloseKeyboard ==
    /\ main_pc = "close_keyboard"
    /\ hidg0' = [hidg0 EXCEPT !.open = FALSE]
    /\ main_pc' = "close_mouse"
    /\ UNCHANGED <<main_exc, running, kpc, kexc, kgrabbed, kfinal, held, e, kstate,
                   kreport, kretry, consumed, mousevars>>
    /\ MainFrame

\* A coordinator that writes the neutral report itself before closing.
MainCloseMouseAfterReset ==
    /\ main_pc = "close_mouse"
    /\ hidg1' = [open |-> FALSE, log |-> <<build_mouse_report(0, 0, 0, 0)>>]
    /\ main_pc' = "return"
    /\ UNCHANGED <<main_exc, running, kbdvars, mpc, plugged, mouse_dev,
                   current_device, grabber, mheld, mlocals, mreport, mretry,
                   mconsumed>>
    /\ MainFrame

\* os.close(mouse_fd), errors swallowed; the mouse thread may still run.
MainCloseMouse ==
    /\ main_pc = "close_mouse"
    /\ hidg1' = [hidg1 EXCEPT !.open = FALSE]
    /\ main_pc' = "return"
    /\ UNCHANGED <<main_exc, running, kbdvars, mpc, plugged, mouse_dev,
                   current_device, grabber, mheld, mlocals, mreport, mretry,
                   mconsumed>>
    /\ MainFrame

\* main() returns 0, or the exception in flight leaves it: the interpreter
\* ends, and the daemon mouse thread with it.
MainReturn ==
    /\ main_pc = "return"
    /\ main_pc' = "exit"
    /\ UNCHANGED <<main_exc, running, kbdvars, mousevars>>
    /\ MainFrame

\* The status the process ends with once main() is left: raise
\* SystemExit(main()) gives main()'s return value 0; an exception that leaves
\* main() ends the interpreter with a nonzero status.
exit_status == IF main_exc = "none" THEN 0 ELSE 1

(***************************************************************************)
(* Specifications.  Each runs the whole program; they differ in the input  *)
(* the devices deliver.                                                    *)
(***************************************************************************)
vars == <<prog, grab, main_pc, main_exc, kbdvars, running, mousevars, call>>

NoCall == [fn |-> "none", args |-> <<>>, ret |-> <<>>]

\* The state when main() of program p has parsed its arguments (g: --grab)
\* and, for pi500-hid-bridge.py, has opened both endpoints and started the
\* mouse thread.
InitProgram(p, g) ==
    /\ prog = p /\ grab = g
    /\ main_pc = (IF p = "pi500" THEN "run_keyboard" ELSE "none")
    /\ main_exc = "none"
    /\ kpc = "open_dev" /\ kexc = "none" /\ kgrabbed = FALSE /\ kfinal = "none"
    /\ held = {} /\ e = NoEvent
    /\ pressed_keys = {} /\ pressed_usages = {} /\ mod_mask = 0
    /\ kreport = <<>> /\ kretry = 0 /\ consumed = <<>>
    /\ hidg0 = [open |-> p = "pi500", log |-> <<>>]
    /\ mpc = "loop" /\ running = TRUE
    /\ plugged = None /\ mouse_dev = NoDevice /\ current_device = NoDevice
    /\ grabber = 0 /\ mheld = {}
    /\ buttons = 0 /\ prev_buttons = 0
    /\ dx_accum = 0 /\ dy_accum = 0 /\ wheel_accum = 0 /\ frame = 0
    /\ mreport = <<>> /\ mretry = 0 /\ mconsumed = <<>>
    /\ hidg1 = [open |-> p = "pi500", log |-> <<>>]

\* The keyboard translator's steps common to both programs.
KbdNext(K, n) ==
    \/ KbdOpenDev
    \/ KbdGrab
    \/ KbdRead(K, n)
    \/ KbdDeviceError
    \/ KbdStreamEnd
    \/ KbdWriteAttempt(n)
    \/ KbdWriteDisconnected(n)
    \/ KbdInterrupt
    \/ KbdUngrab

\* main()'s shutdown when the mouse thread never blocks.
MainNext ==
    \/ MainStop
    \/ MainJoined
    \/ MainJoinInterrupt
    \/ MainCloseKeyboard
    \/ MainCloseMouse
    \/ MainReturn

\* The mouse thread while no mouse is present.
SearchingNext ==
    \/ MouseLoopExit
    \/ MousePickNone
    \/ MouseSleep

\* The mouse thread with a mouse that comes and goes.
MouseNext(Rels, Btns, depth, n) ==
    \/ SearchingNext
    \/ MousePickFound
    \/ MouseRead(Rels, Btns, n)
    \/ MouseDeviceGone
    \/ MouseUnexpected
    \/ MouseWriteAttempt(depth)
    \/ MouseWriteDisconnected(depth)
    \/ MouseCleanupUngrab
    \/ MousePlug("event9")
    \/ MouseUnplug

\* The combined bridge with a mouse whose left button is used: no keys.
BridgeButtons == {"BTN_LEFT"}

Init == call = NoCall /\ \E g \in BOOLEAN : InitProgram("pi500", g)

Next ==
    \/ KbdNext({}, 0)
    \/ MainNext
    \/ MainJoinTimeout
    \/ MouseNext({}, BridgeButtons, 1, 0)

Spec == Init /\ [][Next]_vars

\* The combined bridge with both threads scheduled: a step of main() that can
\* be taken is taken (join returns when the thread has finished or the 2 s
\* have passed), and in the mouse thread a sleep ends, the loop test is made
\* and the final ungrab returns.  Nothing is assumed of the devices, of the
\* endpoints or of when a mouse event arrives.
SpecFair ==
    /\ Spec
    /\ WF_vars(MainStop)
    /\ WF_vars(MainJoined \/ MainJoinTimeout)
    /\ WF_vars(MainCloseKeyboard)
    /\ WF_vars(MainCloseMouse)
    /\ WF_vars(MainReturn)
    /\ WF_vars(MouseSleep)
    /\ WF_vars(MouseLoopExit)
    /\ WF_vars(MouseCleanupUngrab)

\* Both keyboard programs with a keyboard of five keys: a modifier, a plain
\* key, the two keys sharing usage 0x65 and an unmapped key.  No mouse.
KeyboardKeys == {"KEY_LEFTSHIFT", "KEY_A", "KEY_COMPOSE", "KEY_MENU", "KEY_MUTE"}

InitKeyboard ==
    /\ call = NoCall
    /\ \E p \in {"pi500", "hid-keyboard"}, g \in BOOLEAN : InitProgram(p, g)

NextKeyboard ==
    \/ KbdNext(KeyboardKeys, 0)
    \/ KbdOpenHidg
    \/ KbdClose
    \/ MainNext
    \/ SearchingNext

SpecKeyboard == InitKeyboard /\ [][NextKeyboard]_vars

\* pi500-hid-bridge.py on a stream of at most MaxStream keyboard events, every
\* event and every accepted report logged.  No mouse.
MaxStream == 4

ScenarioKeys == {"KEY_LEFTSHIFT", "KEY_A", "KEY_MUTE"}

InitScenario == call = NoCall /\ InitProgram("pi500", FALSE)

NextScenario ==
    \/ KbdNext(ScenarioKeys, MaxStream)
    \/ MainNext
    \/ SearchingNext

SpecScenario == InitScenario /\ [][NextScenario]_vars

\* pi500-hid-bridge.py with a mouse that is plugged in and stays, each call
\* of _process_mouse_events reading at most MaxMouseStream events: two
\* motions and the left button.  Every event of the call is logged and the
\* endpoint keeps the last two reports.  The keyboard has no keys.
MaxMouseStream == 4

MouseRels == {<<"REL_X", 5>>, <<"REL_Y", -3>>}

NextMouse ==
    \/ KbdOpenDev
    \/ MainNext
    \/ MainJoinTimeout
    \/ SearchingNext
    \/ MousePickFound
    \/ MouseRead(MouseRels, BridgeButtons, MaxMouseStream)
    \/ MouseWriteAttempt(2)
    \/ MouseWriteDisconnected(2)
    \/ MouseCleanupUngrab
    \/ MousePlug("event9")

SpecMouse == InitScenario /\ [][NextMouse]_vars

\* run_keyboard_bridge of pi500-hid-bridge.py, up to its return, with a
\* keyboard of the eight modifier keys and one plain key, any number of them
\* held together.  The mouse thread and main()'s shutdown do not touch the
\* translation state and are left out.
ModifierKeyboard == DOMAIN MODIFIER_KEYS \cup {"KEY_A"}

NextModifiers == KbdNext(ModifierKeyboard, 0)

SpecModifiers == InitScenario /\ [][NextModifiers]_vars

\* run_keyboard_bridge of pi500-hid-bridge.py, up to its return, with a
\* keyboard of seven mapped keys (one more than a report has slots) and an
\* unmapped one, any number of them held together.
RolloverKeyboard ==
    {"KEY_A", "KEY_B", "KEY_C", "KEY_D", "KEY_E", "KEY_F", "KEY_G", "KEY_MUTE"}

NextRollover == KbdNext(RolloverKeyboard, 0)

SpecRollover == InitScenario /\ [][NextRollover]_vars

(***************************************************************************)
(* The shutdown of the keyboard translator against an endpoint that gives  *)
(* the same answer to every os.write                                       *)
(***************************************************************************)
\* The translator has left its loop (the stream ended, or the device raised
\* OSError) with no key held, the initial report being the last one accepted.
\* call holds the finally block's write_report call; its third argument is
\* what os.write answers for as long as the shutdown lasts.
InitShutdown ==
    \E p \in {"pi500", "hid-keyboard"}, g \in BOOLEAN,
       exc \in {"none", "OSError"}, answer \in Outcomes :
        /\ prog = p /\ grab = g
        /\ main_pc = (IF p = "pi500" THEN "run_keyboard" ELSE "none")
        /\ main_exc = "none"
        /\ kpc = "finally_write" /\ kexc = exc /\ kgrabbed = g /\ kfinal = "none"
        /\ held = {} /\ e = NoEvent
        /\ pressed_keys = {} /\ pressed_usages = {} /\ mod_mask = 0
        /\ kreport = final_report /\ kretry = 0 /\ consumed = <<>>
        /\ hidg0 = [open |-> TRUE, log |-> <<build_keyboard_report(0, {})>>]
        /\ mpc = "loop" /\ running = TRUE
        /\ plugged = None /\ mouse_dev = NoDevice /\ current_device = NoDevice
        /\ grabber = 0 /\ mheld = {}
        /\ buttons = 0 /\ prev_buttons = 0
        /\ dx_accum = 0 /\ dy_accum = 0 /\ wheel_accum = 0 /\ frame = 0
        /\ mreport = <<>> /\ mretry = 0 /\ mconsumed = <<>>
        /\ hidg1 = [open |-> p = "pi500", log |-> <<>>]
        /\ call = [fn |-> "write_report", args |-> <<p, final_report, answer>>,
                   ret |-> <<>>]

\* One pass of write_report's loop in the finally block, up to its return,
\* its raise (swallowed by except Exception) or its time.sleep.
FinallyWritePass ==
    /\ kpc = "finally_write"
    /\ call.fn = "write_report"
    /\ LET res == write_report_pass(prog, kretry, call.args[3])
       IN  IF res.does = "retry"
           THEN /\ kpc' = "finally_sleep"
                /\ kretry' = res.retry_count
                /\ UNCHANGED <<kexc, kfinal, kreport, hidg0>>
           ELSE KbdWriteEnds(res, 0)
    /\ UNCHANGED <<kgrabbed, held, e, kstate, consumed>>
    /\ KbdFrame

\* time.sleep(0.01) or time.sleep(0.1) returns and the loop starts again.
FinallySleep ==
    /\ kpc = "finally_sleep"
    /\ kpc' = "finally_write"
    /\ UNCHANGED <<kexc, kgrabbed, kfinal, held, e, kstate, kreport, kretry,
                   consumed, hidg0>>
    /\ KbdFrame

NextShutdown ==
    \/ FinallyWritePass
    \/ FinallySleep
    \/ KbdClose
    \/ KbdUngrab
    \/ MainStop
    \/ MainJoined
    \/ MainCloseKeyboard
    \/ MainCloseMouse
    \/ MainReturn
    \/ SearchingNext

\* Every step of the shutdown that can be taken is taken: a sleep ends, a
\* call returns, the mouse thread is scheduled.
SpecShutdown ==
    /\ InitShutdown
    /\ [][NextShutdown]_vars
    /\ WF_vars(FinallyWritePass)
    /\ WF_vars(FinallySleep)
    /\ WF_vars(KbdClose)
    /\ WF_vars(KbdUngrab)
    /\ WF_vars(MainStop)
    /\ WF_vars(MainJoined)
    /\ WF_vars(MainCloseKeyboard)
    /\ WF_vars(MainCloseMouse)
    /\ WF_vars(MainReturn)
    /\ WF_vars(MouseSleep)
    /\ WF_vars(MouseLoopExit)

(***************************************************************************)
(* write_report called on its own against a scripted endpoint              *)
(***************************************************************************)
\* The program itself does not run in the specifications of single calls.
Idle == UNCHANGED <<prog, grab, main_pc, main_exc, kbdvars, running, mousevars>>

\* The longest runs of "not ready" and of "disconnected" answers explored;
\* both exceed max_retries.
MaxNotReady == 120
MaxBroken == 101

\* An endpoint that answers `fault` to the first n calls of os.write and
\* `last` to every later one.
Script(fault, n, last) == [fault |-> fault, n |-> n, last |-> last]

Answer(script, k) == IF k <= script.n THEN script.fault ELSE script.last

WriterScripts ==
    {Script("EAGAIN", n, "ok") : n \in 0..MaxNotReady}
    \cup {Script("EPIPE", n, "ok") : n \in 0..MaxBroken}
    \cup {Script("EAGAIN", n, "EPIPE") : n \in 0..2}
    \cup {Script("EPIPE", n, last) : n \in 0..2, last \in {"short", "EIO"}}

\* What the endpoint holds of `report` after os.write answered `outcome`:
\* all of it, its first half on a short write, else what it held before.
Taken(report, outcome, before) ==
    CASE outcome = "ok" -> report
      [] outcome = "short" -> SubSeq(report, 1, Len(report) \div 2)
      [] OTHER -> before

InitWriter ==
    /\ InitProgram("pi500", FALSE)
    /\ \E p \in {"pi500", "hid-keyboard"}, script \in WriterScripts,
          report \in {build_keyboard_report(2, {4}), build_mouse_report(1, 5, -3, 0)} :
         call = [fn |-> "write_report", args |-> <<p, report, script>>,
                 ret |-> <<>>, retry_count |-> 0, attempts |-> 0,
                 sleeps |-> 0, slept |-> 0, taken |-> <<>>]

\* One pass of the while True loop of write_report.
WriterPass ==
    /\ call.fn = "write_report"
    /\ call.ret = <<>>
    /\ LET k == call.attempts + 1
           o == Answer(call.args[3], k)
           res == write_report_pass(call.args[1], call.retry_count, o)
       IN  call' = [call EXCEPT
                      !.attempts = k,
                      !.retry_count = res.retry_count,
                      !.sleeps = IF res.does = "retry" THEN @ + 1 ELSE @,
                      !.slept = @ + res.sleep,
                      !.taken = Taken(call.args[2], o, @),
                      !.ret = IF res.does = "retry" THEN <<>> ELSE <<res.does>>]
    /\ Idle

SpecWriter == InitWriter /\ [][WriterPass]_vars

\* write_report of pi500-hid-bridge.py against an endpoint that answers
\* each os.write "not ready" or "disconnected" as it likes, explored up to
\* MaxAttempts calls of os.write.  call.broken counts the "disconnected"
\* answers given, call.last is the latest answer.
MaxAttempts == 130

InitWriterAny ==
    /\ InitProgram("pi500", FALSE)
    /\ call = [fn |-> "write_report",
               args |-> <<"pi500", build_mouse_report(0, 0, 0, 0)>>,
               ret |-> <<>>, retry_count |-> 0, attempts |-> 0, broken |-> 0,
               last |-> "none"]

\* One pass of the while True loop of write_report.
WriterPassAny ==
    /\ call.fn = "write_report"
    /\ call.ret = <<>>
    /\ call.attempts < MaxAttempts
    /\ \E o \in {"EAGAIN", "EPIPE"} :
         LET res == write_report_pass(call.args[1], call.retry_count, o)
         IN  call' = [call EXCEPT
                        !.attempts = @ + 1,
                        !.broken = IF o = "EPIPE" THEN @ + 1 ELSE @,
                        !.last = o,
                        !.retry_count = res.retry_count,
                        !.ret = IF res.does = "retry" THEN <<>> ELSE <<res.does>>]
    /\ Idle

SpecWriterAny == InitWriterAny /\ [][WriterPassAny]_vars

(***************************************************************************)
(* The report builders called on their own                                 *)
(***************************************************************************)
\* Usages a keyboard can hold down together, and the longest iteration of a
\* usage set explored.
UsagePool == {4, 5, 29, 41, 57, 101, 135, 139}
MaxUsages == 7

\* Every order in which a set of at most n usages of the pool can be
\* iterated: the sequences without repetition of length at most n.
RECURSIVE Orders(_, _)
Orders(pool, n) ==
    IF n = 0 THEN {<<>>}
    ELSE LET shorter == Orders(pool, n - 1)
         IN  shorter \cup
             UNION {{Append(s, x) : x \in pool \ Range(s)} :
                       s \in {t \in shorter : Len(t) = n - 1}}

MaskSample == {0, 2, 255}

\* Every mask with the sets of at most one usage; the masks of the sample
\* with every iteration order of every set of at most MaxUsages usages.
KbdCodecInputs ==
    ((0..255) \X Orders(UsagePool, 1))
    \cup (MaskSample \X Orders(UsagePool, MaxUsages))

InitKbdCodec ==
    /\ InitProgram("pi500", FALSE)
    /\ \E a \in KbdCodecInputs :
         call = [fn |-> "build_keyboard_report", args |-> a, ret |-> <<>>]

CallBuildKeyboardReport ==
    /\ call.fn = "build_keyboard_report"
    /\ call.ret = <<>>
    /\ call' = [call EXCEPT !.ret = build_report_iter(call.args[1], call.args[2])]
    /\ Idle

SpecKbdCodec == InitKbdCodec /\ [][CallBuildKeyboardReport]_vars

\* The largest magnitude of a motion argument explored.
MaxDelta == 1000

AxisSample == {-MaxDelta, -129, -128, -127, -1, 0, 1, 127, 128, MaxDelta}

\* Every button mask with each axis over its whole range while the other two
\* rest, and with every combination of the sample values on the three axes.
MouseCodecInputs ==
    LET All == (-MaxDelta)..MaxDelta
    IN  ((0..7) \X All \X {0} \X {0})
        \cup ((0..7) \X {0} \X All \X {0})
        \cup ((0..7) \X {0} \X {0} \X All)
        \cup ((0..7) \X AxisSample \X AxisSample \X AxisSample)

InitMouseCodec ==
    /\ InitProgram("pi500", FALSE)
    /\ \E a \in MouseCodecInputs :
         call = [fn |-> "build_mouse_report", args |-> a, ret |-> <<>>]

CallBuildMouseReport ==
    /\ call.fn = "build_mouse_report"
    /\ call.ret = <<>>
    /\ call' = [call EXCEPT !.ret = build_mouse_report(call.args[1], call.args[2],
                                                       call.args[3], call.args[4])]
    /\ Idle

SpecMouseCodec == InitMouseCodec /\ [][CallBuildMouseReport]_vars


(***************************************************************************)
(* Properties                                                              *)
(***************************************************************************)
Last(s) == s[Len(s)]

\* C1: once the finally block's write_report has returned (the endpoint
\* accepted the write), whatever made the translator leave its loop and
\* whatever was held, the last report the keyboard endpoint accepted is the
\* all-released report, 8 zero bytes; that stays so up to and after the close.
C1_LastReportAllReleased ==
    kfinal = "written" =>
        /\ hidg0.log # <<>>
        /\ Last(hidg0.log) = <<0, 0, 0, 0, 0, 0, 0, 0>>

\* A key and a modifier were held when a device error ended the loop, the
\* final write was accepted and the endpoint is closed.
C1_Witness ==
    /\ kfinal = "written"
    /\ ~hidg0.open
    /\ kexc = "OSError"
    /\ pressed_usages # {}
    /\ mod_mask # 0

\* The events of a stream that are a press or a release of a modifier or of
\* a key of the usage table.
KeyChanges(evs) ==
    {i \in 1..Len(evs) :
        /\ evs[i].type = "EV_KEY"
        /\ evs[i].value \in {0, 1}
        /\ evs[i].code \in DOMAIN MODIFIER_KEYS \cup DOMAIN KEY_TO_HID_table}

\* C4: whenever the translator waits for the next event, the endpoint has
\* accepted the initial report plus exactly one report per press or release
\* of a mapped key or a modifier read so far (none for any other event), and
\* the last one is build_keyboard_report of the complete current state; while
\* a report is being written it is the one for the event just read and is
\* built from the complete state after that event.
C4_OneFullReportPerKeyChange ==
    /\ kpc = "read" =>
          /\ Len(hidg0.log) = 1 + Cardinality(KeyChanges(consumed))
          /\ Last(hidg0.log) = build_keyboard_report(mod_mask, pressed_usages)
    /\ kpc = "write" =>
          /\ Len(consumed) \in KeyChanges(consumed)
          /\ Len(hidg0.log) = Cardinality(KeyChanges(consumed))
          /\ kreport = build_keyboard_report(mod_mask, pressed_usages)

\* Four events, two of them not key changes, two reports after the initial
\* one, a key and a modifier down.
C4_Witness ==
    /\ kpc = "read"
    /\ Len(consumed) = 4
    /\ Len(hidg0.log) = 3
    /\ pressed_usages = {4}
    /\ mod_mask = 2

\* C5: in every state in which the translator waits for an event, a press
\* and then a release of any mapped key or modifier that is up leaves
\* (mod_mask, pressed_usages) as it was before the press.
C5_DownUpRoundTrip ==
    kpc = "read" =>
        \A k \in KeyboardKeys \ held :
            k \in DOMAIN MODIFIER_KEYS \cup DOMAIN KEY_TO_HID(prog) =>
                LET d == handle_key_event(prog, pressed_keys, pressed_usages,
                                          mod_mask, KeyEvent(k, 1))
                    u == handle_key_event(prog, d.pressed_keys, d.pressed_usages,
                                          d.mod_mask, KeyEvent(k, 0))
                IN  /\ u.mod_mask = mod_mask
                    /\ u.pressed_usages = pressed_usages

\* C6: a step that reads a Repeat event (value 2), for any key code, leaves
\* mod_mask and pressed_usages unchanged, calls no write_report and leaves the
\* endpoint's log as it was.
C6_RepeatChangesNothing ==
    [][(/\ kpc = "read"
        /\ Len(consumed') = Len(consumed) + 1
        /\ e'.type = "EV_KEY"
        /\ e'.value = 2)
       => (/\ mod_mask' = mod_mask
           /\ pressed_usages' = pressed_usages
           /\ hidg0' = hidg0
           /\ kreport' = kreport
           /\ kpc' = "read")]_vars

\* A Repeat of a held modifier has just been read.
C6_Witness ==
    /\ kpc = "read"
    /\ e = KeyEvent("KEY_LEFTSHIFT", 2)
    /\ mod_mask = 2

\* C7: a step that reads an event for a key code in neither table leaves the
\* translation state unchanged, calls no write_report, leaves the endpoint's
\* log as it was, raises nothing and stays in the read loop.
C7_UnknownKeyIgnored ==
    [][(/\ kpc = "read"
        /\ Len(consumed') = Len(consumed) + 1
        /\ e'.type = "EV_KEY"
        /\ e'.code \notin DOMAIN MODIFIER_KEYS \cup DOMAIN KEY_TO_HID_table)
       => (/\ mod_mask' = mod_mask
           /\ pressed_usages' = pressed_usages
           /\ pressed_keys' = pressed_keys
           /\ hidg0' = hidg0
           /\ kreport' = kreport
           /\ kexc' = "none"
           /\ kpc' = "read")]_vars

\* An unmapped key was pressed and the next event, a press of A, was handled.
C7_Witness ==
    /\ kpc = "read"
    /\ Len(consumed) = 2
    /\ consumed[1] = KeyEvent("KEY_MUTE", 1)
    /\ consumed[2] = KeyEvent("KEY_A", 1)
    /\ pressed_usages = {4}
    /\ Len(hidg0.log) = 2

ShiftAScenario ==
    <<KeyEvent("KEY_LEFTSHIFT", 1), KeyEvent("KEY_A", 1),
      KeyEvent("KEY_A", 0), KeyEvent("KEY_LEFTSHIFT", 0)>>

\* C8: when the stream [Down(LeftShift), Down(A), Up(A), Up(LeftShift)] has
\* been read from the all-released state, the endpoint has accepted, after
\* the initial all-released report: 02 00 00.., 02 00 04 00.., 02 00 00..,
\* and 8 zero bytes.
C8_ShiftAReports ==
    (consumed = ShiftAScenario /\ kpc = "read") =>
        hidg0.log = << <<0, 0, 0, 0, 0, 0, 0, 0>>,
                       <<2, 0, 0, 0, 0, 0, 0, 0>>,
                       <<2, 0, 4, 0, 0, 0, 0, 0>>,
                       <<2, 0, 0, 0, 0, 0, 0, 0>>,
                       <<0, 0, 0, 0, 0, 0, 0, 0>> >>

\* The scenario has been read and its last report written.
C8_Witness == consumed = ShiftAScenario /\ kpc = "read"

\* C2: a step in which the mouse manager, attached and reading, takes the
\* I/O failure of a removed device and goes back to searching ends with the
\* grab released and with the neutral report 00 00 00 00 as the last report
\* the mouse endpoint accepted.
C2_FailureWritesNeutral ==
    [][(/\ mpc = "read"
        /\ ~mouse_dev.alive
        /\ mpc' = "sleep05"
        /\ current_device' = NoDevice)
       => (/\ grabber' # current_device.id
           /\ hidg1'.log # <<>>
           /\ Last(hidg1'.log) = <<0, 0, 0, 0>>)]_vars

\* C3: once the coordinator has closed the mouse endpoint, the last report
\* the endpoint accepted is the neutral report 00 00 00 00.
C3_NeutralBeforeClose ==
    (~hidg1.open /\ hidg1.log # <<>>) => Last(hidg1.log) = <<0, 0, 0, 0>>

\* The number of elements of S below x.
Rank(S, x) == Cardinality({y \in S : y < x})

\* C9: for every mask m of 0..255 and every usage set S, in whatever order S
\* is iterated, build_keyboard_report gives 8 bytes: m, 0, then the 6 lowest
\* elements of S ascending (slot i holds the element with i - 1 elements
\* below it), slots beyond |S| being 0; an element with 6 or more elements
\* below it is in no slot.
C9_KeyboardReportLayout ==
    (call.fn = "build_keyboard_report" /\ call.ret # <<>>) =>
        LET m == call.args[1]
            S == Range(call.args[2])
            r == call.ret
        IN  /\ Len(r) = 8
            /\ r[1] = m
            /\ r[2] = 0
            /\ \A i \in 1..6 :
                 IF i <= Cardinality(S)
                 THEN r[i + 2] \in S /\ Rank(S, r[i + 2]) = i - 1
                 ELSE r[i + 2] = 0
            /\ \A x \in S : Rank(S, x) >= 6 => \A i \in 3..8 : r[i] # x

\* Seven usages iterated in an order that is not ascending, under a nonzero
\* mask; the builder has returned.
C9_Witness ==
    /\ call.fn = "build_keyboard_report"
    /\ call.ret # <<>>
    /\ call.args[1] = 255
    /\ Len(call.args[2]) = 7
    /\ call.args[2][1] = 139
    /\ call.args[2][7] = 4

\* An unsigned byte read as 8-bit two's complement.
Decode(b) == IF b >= 128 THEN b - 256 ELSE b

\* v limited to -127..127.
Saturated(v) == IF v < -127 THEN -127 ELSE IF v > 127 THEN 127 ELSE v

\* C10: for buttons in 0..7 and dx, dy, wheel in -1000..1000,
\* build_mouse_report gives 4 bytes, the first being buttons and each of the
\* other three decoding, as 8-bit two's complement, to its argument limited
\* to -127..127; no motion byte is 0x80.
C10_MouseReportSaturates ==
    (call.fn = "build_mouse_report" /\ call.ret # <<>>) =>
        LET r == call.ret
        IN  /\ Len(r) = 4
            /\ r[1] = call.args[1]
            /\ \A i \in 2..4 :
                 /\ r[i] \in 0..255
                 /\ r[i] # 128
                 /\ Decode(r[i]) = Saturated(call.args[i])

\* Every button set, a motion of -128 on one axis, beyond the range on the
\* other two, both ways; the builder has returned.
C10_Witness ==
    /\ call.fn = "build_mouse_report"
    /\ call.ret # <<>>
    /\ call.args = <<7, -128, 1000, -1000>>

\* The mouse manager, not asked to stop, reads event ev in this step.
MouseReads(ev) ==
    /\ mpc = "read"
    /\ running
    /\ mconsumed' = Append(mconsumed, ev)

MoveScenario ==
    <<RelEvent("REL_X", 5), RelEvent("REL_Y", -3), SynEvent, SynEvent>>

C12_NotReadyRetriedUntilAccepted ==
    (/\ call.fn = "write_report"
     /\ call.args[3].fault = "EAGAIN"
     /\ call.args[3].last = "ok") =>
        LET n == call.args[3].n
        IN  /\ call.ret # <<"raise">>
            /\ call.ret = <<>> => (call.attempts <= n /\ call.sleeps = call.attempts)
            /\ call.ret = <<"return">> =>
                 /\ call.attempts = n + 1
                 /\ call.sleeps = n
                 /\ call.slept = 10 * n
                 /\ call.taken = call.args[2]

\* More "not ready" answers than max_retries, then success.
C12_Witness ==
    /\ call.fn = "write_report"
    /\ call.args[3].fault = "EAGAIN"
    /\ call.args[3].last = "ok"
    /\ call.args[3].n > max_retries
    /\ call.ret = <<"return">>
    /\ call.sleeps = call.args[3].n

\* C13: against an endpoint that answers "disconnected" n times and then
\* accepts, write_report sleeps 100 ms after each failed attempt and tries
\* again: with n below the bound of max_retries attempts it returns after
\* n + 1 attempts and n sleeps; with every attempt within the bound failing
\* it raises at attempt max_retries.
C13_DisconnectedRetriedWithinBound ==
    (/\ call.fn = "write_report"
     /\ call.args[3].fault = "EPIPE"
     /\ call.args[3].last = "ok") =>
        LET n == call.args[3].n
        IN  /\ call.ret = <<>> =>
                 /\ call.attempts <= n
                 /\ call.attempts < max_retries
                 /\ call.slept = 100 * call.attempts
            /\ call.ret = <<"return">> =>
                 /\ n < max_retries
                 /\ call.attempts = n + 1
                 /\ call.sleeps = n
                 /\ call.slept = 100 * n
            /\ call.ret = <<"raise">> =>
                 /\ n >= max_retries
                 /\ call.attempts = max_retries

\* C15: a call of write_report that returns has handed the endpoint the
\* whole report: a short write does not end in a return.
C15_ShortWriteIsNotSuccess ==
    (call.fn = "write_report" /\ call.ret = <<"return">>) =>
        call.taken = call.args[2]

C16_GrabReleasedOnExit ==
    /\ kpc = "returned" => ~kgrabbed
    /\ mpc = "exited" => grabber = 0

\* C17 as stated: when the coordinator has exited, both endpoints are closed.
C17_ExitClosesBothEndpoints ==
    main_pc = "exit" => (~hidg0.open /\ ~hidg1.open)

\* C17, amended: the coordinator leaves run_keyboard_bridge only when the
\* keyboard context has returned, and its next steps are, in this order, the
\* stop request, the end of the join, the close of the keyboard endpoint, the
\* close of the mouse endpoint and the exit; unless an interrupt arrives
\* during the join, in which case it exits at once.  From the join on the
\* mouse context has been asked to stop; an exit without such an interrupt
\* leaves both endpoints closed; and once the keyboard context has returned
\* the coordinator eventually exits, whatever the mouse context does.
C17_StopJoinCloseExit ==
    /\ [](main_pc \in {"join", "close_keyboard", "close_mouse", "return", "exit"}
            => ~running)
    /\ [](main_pc = "exit" /\ main_exc # "KeyboardInterrupt" =>
            (~hidg0.open /\ ~hidg1.open))
    /\ [][main_pc' # main_pc =>
            \/ main_pc = "run_keyboard" /\ kpc = "returned" /\ main_pc' = "join"
                 /\ ~running'
            \/ main_pc = "join" /\ main_pc' = "close_keyboard"
            \/ main_pc = "join" /\ main_pc' = "exit"
                 /\ main_exc' = "KeyboardInterrupt"
            \/ main_pc = "close_keyboard" /\ main_pc' = "close_mouse"
                 /\ ~hidg0'.open
            \/ main_pc = "close_mouse" /\ main_pc' = "return" /\ ~hidg1'.open
            \/ main_pc = "return" /\ main_pc' = "exit"]_vars
    /\ (kpc = "returned") ~> (main_pc = "exit")

\* The coordinator has exited normally while the mouse context, attached and
\* waiting for an event, has not seen the stop request.
C17_Witness ==
    /\ main_pc = "exit"
    /\ main_exc = "none"
    /\ mpc = "read"
    /\ ~running
    /\ ~hidg0.open /\ ~hidg1.open

\* C18: every report the keyboard endpoint holds has 8 bytes and every report
\* the mouse endpoint holds has 4; a step in which the keyboard endpoint
\* accepts a report is a step of the keyboard context inside write_report,
\* the report being that call's argument, and neither the coordinator nor the
\* mouse context moves in it; likewise the mouse endpoint accepts reports
\* only in steps of the mouse context's write_report.
C18_SingleWriterPerEndpoint ==
    /\ [](/\ \A i \in 1..Len(hidg0.log) : Len(hidg0.log[i]) = 8
          /\ \A i \in 1..Len(hidg1.log) : Len(hidg1.log[i]) = 4)
    /\ [][/\ hidg0'.log # hidg0.log =>
               /\ kpc \in WritePcs
               /\ Last(hidg0'.log) = kreport
               /\ UNCHANGED <<mainvars, running, mousevars>>
          /\ hidg1'.log # hidg1.log =>
               /\ mpc \in MouseWritePcs
               /\ Last(hidg1'.log) = mreport
               /\ UNCHANGED <<mainvars, running, kbdvars>>]_vars

\* Both contexts are inside write_report at once, the mouse context retrying
\* after a disconnect during shutdown, and both endpoints hold a report.
C18_Witness ==
    /\ kpc = "finally_write"
    /\ mpc = "write"
    /\ mretry > 0
    /\ hidg0.log # <<>>
    /\ hidg1.log # <<>>
    /\ hidg1.open

\* On a bounded stream: write_report raised while an event was being
\* processed, so the report of the last key change read was never accepted,
\* and the error is in flight.
EventWriteFailed ==
    /\ kexc = "OSError"
    /\ Len(hidg0.log) - (IF kfinal = "written" THEN 1 ELSE 0)
         < 1 + Cardinality(KeyChanges(consumed))

\* C19 as stated: an error raised by write_report while an event is being
\* processed stays in flight until the translator has returned, and a run in
\* which the translator returned without an error in flight, normally or on
\* an interrupt, exits with status 0.
C19_FatalNonZeroInterruptZero ==
    /\ [](main_pc = "exit" /\ kexc # "OSError" => exit_status = 0)
    /\ [][(kpc = "finally_write" /\ EventWriteFailed) => kexc' = "OSError"]_vars

\* C19, amended: write_report raising while an event is processed ends the
\* read loop with the error in flight and starts the finally block; the
\* coordinator exits only after the stop request; when the translator has
\* returned with the error in flight the process exits with a nonzero
\* status; when it has returned normally or on an interrupt, and no further
\* interrupt arrived during the coordinator's join, the status is 0.  An
\* interrupt during the finally block's write replaces the error in flight,
\* and one during the join leaves main() as an exception.
C19_FatalPropagatesInterruptReturns ==
    /\ [][(kpc = "write" /\ kpc' # "write" /\ kpc' # "read") =>
            \/ kpc' = "finally_write" /\ kexc' = "OSError"
            \/ kpc' = "finally_write" /\ kexc' = "none"]_vars
    /\ [](main_pc = "exit" => (~running /\ kpc = "returned"))
    /\ [](main_pc = "exit" /\ kexc = "OSError" =>
            (main_exc # "none" /\ exit_status # 0))
    /\ [](main_pc = "exit" /\ kexc # "OSError" /\ main_exc # "KeyboardInterrupt" =>
            exit_status = 0)
    /\ [][(kpc = "finally_write" /\ EventWriteFailed /\ kexc' # "OSError") =>
            (kexc' = "KeyboardInterrupt" /\ kfinal' = "interrupted")]_vars

\* A key was down when write_report raised; the final report was written,
\* the error left main() after both endpoints were closed.
C19_Witness ==
    /\ main_pc = "exit"
    /\ EventWriteFailed
    /\ main_exc = "OSError"
    /\ exit_status # 0
    /\ kfinal = "written"
    /\ ~hidg0.open

\* C20: on every exit path the keyboard endpoint is closed only with the
\* grab no longer held and, if the endpoint ever accepted a report, only
\* after the finally block's all-released write has been attempted (accepted
\* or its failure swallowed); a held grab is released only after that write
\* and while the endpoint is still open.
C20_ResetUngrabClose ==
    /\ [][(hidg0.open /\ ~hidg0'.open) =>
            /\ ~kgrabbed
            /\ hidg0.log # <<>> => kfinal \in {"written", "swallowed"}]_vars
    /\ [][(kgrabbed /\ ~kgrabbed') =>
            (kfinal \in {"written", "swallowed"} /\ hidg0.open)]_vars

\* C21: whatever the endpoint answers during the shutdown, the finally
\* block's write_report ends, the translator returns with the grab released,
\* the endpoint is closed, and the exception in flight when the finally block
\* started is the one in flight when it ends.
C21_ShutdownNeverLoopsOrFails ==
    /\ <>(kpc = "returned" /\ ~kgrabbed)
    /\ <>(~hidg0.open)
    /\ [][(kpc \in {"finally_write", "finally_sleep"}) => (kexc' = kexc)]_vars

\* C22: run returns either from the loop test with no current device, or,
\* with a current device, through the cleanup: the loop test with the stop
\* request seen starts the write of the neutral report 00 00 00 00, that
\* write is attempted once (accepted, or its failure swallowed) before the
\* ungrab, the ungrab comes before the return, and when run has returned no
\* handle holds the grab.
C22_CleanupBeforeReturn ==
    /\ [](mpc = "exited" => grabber = 0)
    /\ [][(mpc # "exited" /\ mpc' = "exited") =>
            \/ mpc = "loop" /\ ~running /\ current_device = NoDevice
            \/ mpc = "cleanup_ungrab" /\ current_device # NoDevice]_vars
    /\ [][(mpc # "cleanup_ungrab" /\ mpc' = "cleanup_ungrab") =>
            /\ mpc = "cleanup_write"
            /\ mreport = <<0, 0, 0, 0>>
            /\ hidg1' # hidg1 => Last(hidg1'.log) = <<0, 0, 0, 0>>]_vars
    /\ [][(mpc # "cleanup_write" /\ mpc' = "cleanup_write") =>
            (mpc = "loop" /\ ~running /\ current_device # NoDevice)]_vars
    /\ [][(mpc = "loop" /\ ~running /\ current_device # NoDevice /\ mpc' # "loop") =>
            mpc' = "cleanup_write"]_vars

\* run has returned with --grab and a current device still plugged in, the
\* neutral report being the last one the mouse endpoint accepted.
C22_Witness ==
    /\ mpc = "exited"
    /\ grab
    /\ current_device # NoDevice
    /\ current_device.alive
    /\ hidg1.log # <<>>
    /\ Last(hidg1.log) = <<0, 0, 0, 0>>
    /\ grabber = 0

\* C23: in every state of the translator, each modifier key's bit is set in
\* mod_mask exactly when the key is down (its last Down/Up event was a Down)
\* and mod_mask has no other bit; the eight modifier keys have eight
\* distinct single bits, and no key code of MODIFIER_KEYS is a key of
\* KEY_TO_HID.
C23_ModifierMaskExact ==
    /\ \A k \in DOMAIN MODIFIER_KEYS :
          HasBit(mod_mask, MODIFIER_KEYS[k]) <=> k \in held
    /\ mod_mask \in 0..255
    /\ \A k \in DOMAIN MODIFIER_KEYS : MODIFIER_KEYS[k] \in {1, 2, 4, 8, 16, 32, 64, 128}
    /\ \A k1, k2 \in DOMAIN MODIFIER_KEYS :
          k1 # k2 => MODIFIER_KEYS[k1] # MODIFIER_KEYS[k2]
    /\ DOMAIN MODIFIER_KEYS \cap DOMAIN KEY_TO_HID(prog) = {}

\* Left Ctrl and right Shift are held after Left Alt was pressed with them
\* and released, and the report of that state was accepted.
C23_Witness ==
    /\ kpc = "read"
    /\ held = {"KEY_LEFTCTRL", "KEY_RIGHTSHIFT"}
    /\ e = KeyEvent("KEY_LEFTALT", 0)
    /\ mod_mask = 33
    /\ Last(hidg0.log) = <<33, 0, 0, 0, 0, 0, 0, 0>>

Slots(report) == {report[i] : i \in 3..8}

C25_UsagesAreImageOfKeys ==
    /\ pressed_keys = held \cap DOMAIN KEY_TO_HID(prog)
    /\ pressed_usages = {KEY_TO_HID(prog)[k] : k \in pressed_keys}

\* C26: once main() has closed the mouse endpoint, no call of os.write on it
\* is made by the mouse thread: no pass of write_report ends (by a return, a
\* raise or a retry that counts) while the endpoint is closed.
C26_NoMouseWriteAfterClose ==
    [][(~hidg1.open /\ mpc \in MouseWritePcs) =>
          (mpc' = mpc /\ mretry' = mretry /\ hidg1' = hidg1)]_vars

\* C27: with --grab, whenever the mouse thread waits in read_loop on a handle
\* of a device that is present and some handle holds the grab (the grab
\* attempt did not fail), the handle that holds it is the one being read.
C27_DrainedHandleHoldsGrab ==
    (grab /\ mpc = "read" /\ mouse_dev.alive /\ grabber # 0) =>
        grabber = mouse_dev.id

\* C28: in one call of write_report whose os.write is answered "not ready"
\* or "disconnected" in any order, retry_count is the number of
\* "disconnected" answers so far whatever "not ready" answers came between
\* them; the call goes on while that number is below max_retries and raises
\* on the answer that makes it max_retries (100), never otherwise; the
\* number of os.write calls is limited by nothing else.
C28_DisconnectCountIsCumulative ==
    /\ call.retry_count = call.broken
    /\ call.ret = <<>> => call.broken < max_retries
    /\ call.ret # <<>> =>
         /\ call.ret = <<"raise">>
         /\ call.last = "EPIPE"
         /\ call.broken = max_retries
    /\ call.attempts >= call.broken

\* The call has raised on its 100th "disconnected" answer, which was its
\* 130th os.write: 30 "not ready" answers lay between the others.
C28_Witness ==
    /\ call.ret = <<"raise">>
    /\ call.broken = 100
    /\ call.attempts = 130

====
